---------------------------- MODULE Spec2Model ----------------------------
(***************************************************************************)
(* The college lead scraper: the text extractors, the DuckDuckGo redirect  *)
(* unwrapper, the fetcher with its single retry, the personnel page        *)
(* extractor, the workflow orchestrator and the POST handler that builds   *)
(* the configuration and drives the workflow.                             *)
(*                                                                         *)
(* Strings are sequences of one-character strings, so that the regular     *)
(* expressions, the URL parsing and the percent-decoding are computed      *)
(* character by character as the Python code computes them.               *)
(***************************************************************************)
EXTENDS Integers, Sequences, FiniteSets, TLC

VARIABLES
    \* the function specifications (SpecPhones, SpecUnwrap, SpecFaculty)
    input,          \* argument of the function called
    output,         \* its return value
    phase,          \* "ready" before the call, "done" after it, "idle" when unused
    \* the request handler and the workflow (Spec)
    data,           \* the POST request: [valid_json, body]
    pc,             \* "post", "get", the continuation of a fetch, "responded", "raised"
    status,         \* HTTP status sent by do_POST, 0 while none is
    config,         \* ScrapeConfig
    college_name,
    results,        \* the results dict of run_workflow
    college_data,   \* run_workflow: what scrape_college_info returned
    faculty_pages,  \* run_workflow: the truncated candidate pages
    page_i,         \* run_workflow: index of the page of the for loop
    faculty_list,   \* run_workflow: the truncated records of that page
    f_j,            \* run_workflow: index of the record of the inner for loop
    get_url,        \* _get: url
    attempt,        \* _get: the loop variable
    ret,            \* who called _get: "resolve", "home", "page", "linkedin"
    resp,           \* what _get returned
    \* history, read by the properties only
    get_log,        \* the session.get attempts and sleeps of the current _get call
    fetches,        \* every _get call of the request: [step, url]
    delays,         \* number of polite delays slept
    lookups         \* positions in faculty_members of the records looked up

\* ------------------------------------------------------------------ strings

Digit == {"0","1","2","3","4","5","6","7","8","9"}
Lower == {"a","b","c","d","e","f","g","h","i","j","k","l","m",
          "n","o","p","q","r","s","t","u","v","w","x","y","z"}
Upper == {"A","B","C","D","E","F","G","H","I","J","K","L","M",
          "N","O","P","Q","R","S","T","U","V","W","X","Y","Z"}
Letter == Lower \cup Upper
\* \s of Python's re
Whitespace == {" ", "\t", "\n", "\r"}

\* ord(c) for the characters of the model
Punct == <<"\t", "\n", "\r", " ", "#", "%", "&", "(", ")", "+", ",", "-", ".", "/",
           ":", "=", "?", "@", "[", "]", "_">>
DigitSeq == <<"0","1","2","3","4","5","6","7","8","9">>
LowerSeq == <<"a","b","c","d","e","f","g","h","i","j","k","l","m",
              "n","o","p","q","r","s","t","u","v","w","x","y","z">>
UpperSeq == <<"A","B","C","D","E","F","G","H","I","J","K","L","M",
              "N","O","P","Q","R","S","T","U","V","W","X","Y","Z">>
IndexOf(seq, c) == CHOOSE i \in 1..Len(seq) : seq[i] = c
Char == Digit \cup Letter \cup {Punct[i] : i \in 1..Len(Punct)}

Ord == [c \in Char |->
          IF c \in Digit THEN 47 + IndexOf(DigitSeq, c)
          ELSE IF c \in Upper THEN 64 + IndexOf(UpperSeq, c)
          ELSE IF c \in Lower THEN 96 + IndexOf(LowerSeq, c)
          ELSE <<9, 10, 13, 32, 35, 37, 38, 40, 41, 43, 44, 45, 46, 47,
                 58, 61, 63, 64, 91, 93, 95>>[IndexOf(Punct, c)]]

\* str.lower()
LowerChar == [c \in Char |-> IF c \in Upper THEN LowerSeq[IndexOf(UpperSeq, c)] ELSE c]
ToLower(s) == [i \in 1..Len(s) |-> LowerChar[s[i]]]

RECURSIVE StrLess(_, _)
\* s < t for Python strings
StrLess(s, t) ==
    IF t = <<>> THEN FALSE
    ELSE IF s = <<>> THEN TRUE
    ELSE IF Head(s) = Head(t) THEN StrLess(Tail(s), Tail(t))
    ELSE Ord[Head(s)] < Ord[Head(t)]

RECURSIVE SortedSet(_)
\* sorted(set(...)): the strings of S in increasing order
SortedSet(S) ==
    IF S = {} THEN <<>>
    ELSE LET m == CHOOSE x \in S : \A y \in S \ {x} : StrLess(x, y)
         IN  <<m>> \o SortedSet(S \ {m})

Range(seq) == {seq[i] : i \in 1..Len(seq)}

RECURSIVE Concat(_)
\* "".join(parts)
Concat(parts) == IF parts = <<>> THEN <<>> ELSE Head(parts) \o Concat(Tail(parts))

StartsWith(s, p) == Len(s) >= Len(p) /\ SubSeq(s, 1, Len(p)) = p
EndsWith(s, p) == Len(s) >= Len(p) /\ SubSeq(s, Len(s) - Len(p) + 1, Len(s)) = p

RECURSIVE Strip(_)
\* str.strip()
Strip(s) ==
    IF s = <<>> THEN s
    ELSE IF Head(s) \in Whitespace THEN Strip(Tail(s))
    ELSE IF s[Len(s)] \in Whitespace THEN Strip(SubSeq(s, 1, Len(s) - 1))
    ELSE s

\* ------------------------------------------------------- regular expressions
\* A pattern is a sequence of items: a character class with a greedy repetition
\* min..max (max = Unbounded for + and {n,}), or the word boundary \b.

Unbounded == 0 - 1
NoMatch == 0

Cls(chars, lo, hi) == [kind |-> "cls", chars |-> chars, min |-> lo, max |-> hi]
WordBoundary == [kind |-> "wb", chars |-> {}, min |-> 0, max |-> 0]

IsWordAt(text, i) == i >= 1 /\ i <= Len(text) /\ text[i] \in Letter \cup Digit \cup {"_"}
AtWordBoundary(text, pos) == IsWordAt(text, pos - 1) # IsWordAt(text, pos)

RECURSIVE RunLen(_, _, _, _)
\* how many characters from pos on are in S, at most max of them
RunLen(text, pos, S, max) ==
    IF max = 0 \/ pos > Len(text) THEN 0
    ELSE IF text[pos] \notin S THEN 0
    ELSE 1 + RunLen(text, pos + 1, S, max - 1)

RECURSIVE MatchFrom(_, _, _, _)
RECURSIVE TryCounts(_, _, _, _, _)
\* Backtracking: item k takes n characters, the longest first; the first n for
\* which the rest of the pattern matches wins.
TryCounts(items, k, text, pos, n) ==
    IF n < items[k].min THEN NoMatch
    ELSE LET e == MatchFrom(items, k + 1, text, pos + n)
         IN  IF e # NoMatch THEN e ELSE TryCounts(items, k, text, pos, n - 1)

\* The position after the match of items[k..] at pos, or NoMatch.
MatchFrom(items, k, text, pos) ==
    IF k > Len(items) THEN pos
    ELSE IF items[k].kind = "wb"
         THEN IF AtWordBoundary(text, pos) THEN MatchFrom(items, k + 1, text, pos)
              ELSE NoMatch
         ELSE TryCounts(items, k, text, pos,
                        RunLen(text, pos, items[k].chars, items[k].max))

RECURSIVE FindAllFrom(_, _, _)
FindAllFrom(items, text, pos) ==
    IF pos > Len(text) + 1 THEN <<>>
    ELSE LET e == MatchFrom(items, 1, text, pos)
         IN  IF e = NoMatch THEN FindAllFrom(items, text, pos + 1)
             ELSE <<SubSeq(text, pos, e - 1)>>
                  \o FindAllFrom(items, text, IF e = pos THEN pos + 1 ELSE e)

\* re.findall(pattern, text): the non-overlapping matches, left to right
FindAll(items, text) == FindAllFrom(items, text, 1)

\* ------------------------------------------------------------ text extractors

\* \b[A-Za-z0-9._%+-]+@[A-Za-z0-9.-]+\.[A-Za-z]{2,}\b
email_pattern ==
    <<WordBoundary,
      Cls(Letter \cup Digit \cup {".", "_", "%", "+", "-"}, 1, Unbounded),
      Cls({"@"}, 1, 1),
      Cls(Letter \cup Digit \cup {".", "-"}, 1, Unbounded),
      Cls({"."}, 1, 1),
      Cls(Letter, 2, Unbounded), WordBoundary>>

extract_emails(text) == SortedSet(Range(FindAll(email_pattern, text)))

\* [-.\s]
Sep == {"-", "."} \cup Whitespace

phone_patterns ==
    << \* \+?91[-.\s]?\d{10}
       <<Cls({"+"}, 0, 1), Cls({"9"}, 1, 1), Cls({"1"}, 1, 1), Cls(Sep, 0, 1),
         Cls(Digit, 10, 10)>>,
       \* \+?\d{1,3}[-.\s]?\(?\d{3}\)?[-.\s]?\d{3}[-.\s]?\d{4}
       <<Cls({"+"}, 0, 1), Cls(Digit, 1, 3), Cls(Sep, 0, 1), Cls({"("}, 0, 1),
         Cls(Digit, 3, 3), Cls({")"}, 0, 1), Cls(Sep, 0, 1), Cls(Digit, 3, 3),
         Cls(Sep, 0, 1), Cls(Digit, 4, 4)>>,
       \* \d{3}[-.\s]?\d{3}[-.\s]?\d{4}
       <<Cls(Digit, 3, 3), Cls(Sep, 0, 1), Cls(Digit, 3, 3), Cls(Sep, 0, 1),
         Cls(Digit, 4, 4)>> >>

\* phones.extend(re.findall(pattern, text)) for each pattern in turn, then
\* sorted(set(p.strip() for p in phones if p.strip()))
extract_phones(text) ==
    SortedSet({Strip(p) :
        p \in {q \in Range(Concat([i \in 1..Len(phone_patterns) |->
                                      FindAll(phone_patterns[i], text)])) :
                  Strip(q) # <<>>}})


\* --------------------------------------------------------------------- URLs

\* s.find(ch): the first index of a character of set S at or after from, 0 if none
RECURSIVE FindAny(_, _, _)
FindAny(s, S, from) ==
    IF from > Len(s) THEN 0
    ELSE IF s[from] \in S THEN from
    ELSE FindAny(s, S, from + 1)

Contains(s, sub) ==
    \E i \in 1..(Len(s) - Len(sub) + 1) : SubSeq(s, i, i + Len(sub) - 1) = sub

\* s.split(ch)
RECURSIVE SplitOn(_, _)
SplitOn(s, ch) ==
    LET i == FindAny(s, {ch}, 1)
    IN  IF i = 0 THEN <<s>>
        ELSE <<SubSeq(s, 1, i - 1)>> \o SplitOn(SubSeq(s, i + 1, Len(s)), ch)

\* ch.join(parts)
RECURSIVE JoinWith(_, _)
JoinWith(parts, ch) ==
    IF parts = <<>> THEN <<>>
    ELSE IF Len(parts) = 1 THEN parts[1]
    ELSE parts[1] \o <<ch>> \o JoinWith(Tail(parts), ch)

Replace(s, a, b) == [i \in 1..Len(s) |-> IF s[i] = a THEN b ELSE s[i]]

RECURSIVE LStrip(_, _)
LStrip(s, S) == IF s # <<>> /\ Head(s) \in S THEN LStrip(Tail(s), S) ELSE s

\* urllib.parse: uses_relative, uses_netloc (the schemes of the model)
uses_relative == {<<>>, <<"h","t","t","p">>, <<"h","t","t","p","s">>, <<"f","t","p">>}
uses_netloc == {<<>>, <<"h","t","t","p">>, <<"h","t","t","p","s">>, <<"f","t","p">>}

\* urllib.parse.urlsplit(url, scheme), statement by statement; err stands for the
\* ValueError "Invalid IPv6 URL" raised when the netloc holds one bracket without
\* the other.

\* if "?" in url: url, query = url.split("?", 1)
SplitQueryAt(scheme, netloc, url, fragment, q) ==
    [err |-> ("[" \in Range(netloc)) # ("]" \in Range(netloc)),
     scheme |-> scheme,
     netloc |-> netloc,
     path |-> IF q = 0 THEN url ELSE SubSeq(url, 1, q - 1),
     query |-> IF q = 0 THEN <<>> ELSE SubSeq(url, q + 1, Len(url)),
     fragment |-> fragment]

\* if "#" in url: url, fragment = url.split("#", 1)
SplitFragmentAt(scheme, netloc, url, h) ==
    SplitQueryAt(scheme, netloc,
                 IF h = 0 THEN url ELSE SubSeq(url, 1, h - 1),
                 IF h = 0 THEN <<>> ELSE SubSeq(url, h + 1, Len(url)),
                 FindAny(IF h = 0 THEN url ELSE SubSeq(url, 1, h - 1), {"?"}, 1))

\* if url[:2] == "//": netloc, url = _splitnetloc(url, 2); delim is the index of the
\* first of / ? # after the slashes, 0 when there is none, -1 when url has no netloc
SplitNetlocAt(scheme, url, delim) ==
    SplitFragmentAt(scheme,
                    IF delim < 0 THEN <<>>
                    ELSE IF delim = 0 THEN SubSeq(url, 3, Len(url))
                    ELSE SubSeq(url, 3, delim - 1),
                    IF delim < 0 THEN url
                    ELSE IF delim = 0 THEN <<>>
                    ELSE SubSeq(url, delim, Len(url)),
                    FindAny(IF delim < 0 THEN url
                            ELSE IF delim = 0 THEN <<>>
                            ELSE SubSeq(url, delim, Len(url)), {"#"}, 1))

SplitNetloc(scheme, url) ==
    SplitNetlocAt(scheme, url,
                  IF StartsWith(url, <<"/","/">>) THEN FindAny(url, {"/", "?", "#"}, 3)
                  ELSE 0 - 1)

\* i = url.find(":"); a scheme is a letter followed by scheme_chars
HasScheme(url, i) ==
    i > 1 /\ url[1] \in Letter /\ \A k \in 1..(i - 1) : url[k] \in Letter \cup Digit \cup {"+", "-", "."}

SplitSchemeAt(url, i, default_scheme) ==
    SplitNetloc(IF HasScheme(url, i) THEN ToLower(SubSeq(url, 1, i - 1)) ELSE default_scheme,
                IF HasScheme(url, i) THEN SubSeq(url, i + 1, Len(url)) ELSE url)

SplitScheme(url, default_scheme) ==
    SplitSchemeAt(url, FindAny(url, {":"}, 1), default_scheme)

urlsplit(url, default_scheme) ==
    SplitScheme(SelectSeq(LStrip(url, Whitespace), LAMBDA c : c \notin {"\t", "\n", "\r"}),
                default_scheme)

\* urllib.parse.urlparse(url): urlsplit, the path of the model holding no ";params"
urlparse(url) == urlsplit(url, <<>>)

HexDigit == Digit \cup {"a","b","c","d","e","f","A","B","C","D","E","F"}
HexVal(c) == IF c \in Digit THEN Ord[c] - 48 ELSE Ord[LowerChar[c]] - 87

\* chr(n) for the characters of the model
CharOf(n) == CHOOSE c \in Char : Ord[c] = n

RECURSIVE unquote(_)
\* urllib.parse.unquote: %XX becomes the character of that code; a % not followed
\* by two hex digits stays
unquote(s) ==
    IF s = <<>> THEN s
    ELSE IF /\ Head(s) = "%"
            /\ Len(s) >= 3
            /\ s[2] \in HexDigit
            /\ s[3] \in HexDigit
         THEN <<CharOf(16 * HexVal(s[2]) + HexVal(s[3]))>> \o unquote(SubSeq(s, 4, Len(s)))
         ELSE <<Head(s)>> \o unquote(Tail(s))

\* urllib.parse.parse_qsl(query): the (name, value) pairs with a non-blank value
parse_qsl(query) ==
    LET fields == SelectSeq(SplitOn(query, "&"),
                            LAMBDA f : f # <<>> /\ "=" \in Range(f)
                                       /\ FindAny(f, {"="}, 1) < Len(f))
    IN  [k \in 1..Len(fields) |->
            LET f == fields[k]
                e == FindAny(f, {"="}, 1)
            IN  [name |-> unquote(Replace(SubSeq(f, 1, e - 1), "+", " ")),
                 value |-> unquote(Replace(SubSeq(f, e + 1, Len(f)), "+", " "))]]

\* urllib.parse.parse_qs(query)[name], <<>> when the name is not a key
parse_qs(query, name) ==
    LET hits == SelectSeq(parse_qsl(query), LAMBDA f : f.name = name)
    IN  [k \in 1..Len(hits) |-> hits[k].value]

\* if "uddg" in qs and qs["uddg"]: return qs["uddg"][0]
UnwrapQuery(href, uddg) == IF uddg # <<>> THEN uddg[1] ELSE href

UnwrapParsed(href, parsed) ==
    IF parsed.err THEN href
    ELSE IF /\ EndsWith(parsed.netloc, <<"d","u","c","k","d","u","c","k","g","o",".","c","o","m">>)
            /\ StartsWith(parsed.path, <<"/","l","/">>)
         THEN UnwrapQuery(href, parse_qs(parsed.query, <<"u","d","d","g">>))
         ELSE href

\* CollegeLeadScraper._unwrap_duckduckgo_redirect
_unwrap_duckduckgo_redirect(href) == UnwrapParsed(href, urlparse(href))

\* urllib.parse.urlunsplit
UnsplitNetloc(scheme, netloc, path) ==
    IF netloc # <<>>
       \/ (scheme # <<>> /\ scheme \in uses_netloc /\ ~StartsWith(path, <<"/","/">>))
    THEN <<"/","/">> \o netloc
         \o (IF path # <<>> /\ Head(path) # "/" THEN <<"/">> ELSE <<>>) \o path
    ELSE path

urlunsplit(scheme, netloc, path, query, fragment) ==
    (IF scheme # <<>> THEN scheme \o <<":">> ELSE <<>>)
    \o UnsplitNetloc(scheme, netloc, path)
    \o (IF query # <<>> THEN <<"?">> \o query ELSE <<>>)
    \o (IF fragment # <<>> THEN <<"#">> \o fragment ELSE <<>>)

RECURSIVE RemoveDots(_, _)
\* the dot-segment loop of urljoin over the segments left, resolved so far
RemoveDots(segments, resolved) ==
    IF segments = <<>> THEN resolved
    ELSE IF Head(segments) = <<".",".">>
         THEN RemoveDots(Tail(segments),
                         IF resolved = <<>> THEN resolved
                         ELSE SubSeq(resolved, 1, Len(resolved) - 1))
    ELSE IF Head(segments) = <<".">> THEN RemoveDots(Tail(segments), resolved)
    ELSE RemoveDots(Tail(segments), Append(resolved, Head(segments)))

\* base_parts = bpath.split("/"); if base_parts[-1] != "": del base_parts[-1]
BaseParts(parts) ==
    IF parts[Len(parts)] # <<>> THEN SubSeq(parts, 1, Len(parts) - 1) ELSE parts

\* segments[1:-1] = filter(None, segments[1:-1])
FilterMiddle(segments) ==
    IF Len(segments) < 2 THEN segments
    ELSE <<segments[1]>>
         \o SelectSeq(SubSeq(segments, 2, Len(segments) - 1), LAMBDA x : x # <<>>)
         \o <<segments[Len(segments)]>>

Segments(bpath, path) ==
    IF Head(path) = "/" THEN SplitOn(path, "/")
    ELSE FilterMiddle(BaseParts(SplitOn(bpath, "/")) \o SplitOn(path, "/"))

\* "/".join(resolved_path) or "/"
OrSlash(joined) == IF joined = <<>> THEN <<"/">> ELSE joined

\* if segments[-1] in (".", ".."): resolved_path.append("")
ResolvedPath(segments, resolved) ==
    OrSlash(JoinWith(IF segments[Len(segments)] \in {<<".">>, <<".",".">>}
                     THEN Append(resolved, <<>>) ELSE resolved, "/"))

ResolvePath(segments) == ResolvedPath(segments, RemoveDots(segments, <<>>))

\* urljoin once base (b) and url (u) are parsed
JoinParsed(url, b, u) ==
    IF u.err THEN [err |-> TRUE, url |-> <<>>]
    ELSE IF u.scheme # b.scheme \/ u.scheme \notin uses_relative
         THEN [err |-> FALSE, url |-> url]
    ELSE [err |-> FALSE,
          url |-> urlunsplit(
              u.scheme,
              IF u.scheme \in uses_netloc /\ u.netloc = <<>> THEN b.netloc ELSE u.netloc,
              IF u.scheme \in uses_netloc /\ u.netloc # <<>> THEN u.path
              ELSE IF u.path = <<>> THEN b.path
              ELSE ResolvePath(Segments(b.path, u.path)),
              IF (u.scheme \notin uses_netloc \/ u.netloc = <<>>)
                 /\ u.path = <<>> /\ u.query = <<>>
              THEN b.query ELSE u.query,
              u.fragment)]

JoinBase(url, b) ==
    IF b.err THEN [err |-> TRUE, url |-> <<>>]
    ELSE JoinParsed(url, b, urlsplit(url, b.scheme))

\* urllib.parse.urljoin(base, url): [err, url], err for the ValueError of urlparse
urljoin(base, url) ==
    IF url = <<>> THEN [err |-> FALSE, url |-> base]
    ELSE IF base = <<>> THEN [err |-> FALSE, url |-> url]
    ELSE JoinBase(url, urlsplit(base, <<>>))

\* ---------------------------------------------------------------- documents
\* What BeautifulSoup(resp.content, "html.parser") exposes to the scraper:
\*   text    soup.get_text(" ")
\*   anchors the <a> elements in document order: class attribute, href (has_href
\*           FALSE when the attribute is missing), visible text
\*   rows    the <tr> of the tables in document order, each the texts of its
\*           <td>/<th> cells (cell.get_text(" ", strip=True))
\*   blocks  the <div>/<section>/<article> elements in document order: class
\*           attribute, text (get_text(" ", strip=True)), and the text of the first
\*           h2/h3/h4/strong/b inside (has_name_tag FALSE when there is none)
Doc(text, anchors, rows, blocks) ==
    [text |-> text, anchors |-> anchors, rows |-> rows, blocks |-> blocks]

Anchor(class, has_href, href, text) ==
    [class |-> class, has_href |-> has_href, href |-> href, text |-> text]

Block(class, text, has_name_tag, name_text) ==
    [class |-> class, text |-> text, has_name_tag |-> has_name_tag,
     name_text |-> name_text]

\* A value of Optional[...]: None is the empty tuple, a value v is <<v>>.
None == <<>>
Some(v) == <<v>>

\* What _get returns: None, or a requests.Response, whose truth value is its ok
\* (status below 400).
NoResponse == [is_none |-> TRUE, ok |-> FALSE, content |-> Doc(<<>>, <<>>, <<>>, <<>>)]
Response(ok, content) == [is_none |-> FALSE, ok |-> ok, content |-> content]
\* not rsp
Not(rsp) == rsp.is_none \/ ~rsp.ok

\* l[:n + 1]: a slice that is one too long
SliceToInclusive(l, n) ==
    IF n >= 0 THEN SubSeq(l, 1, IF n + 1 < Len(l) THEN n + 1 ELSE Len(l))
    ELSE SubSeq(l, 1, IF Len(l) + n + 1 > 0 THEN Len(l) + n + 1 ELSE 0)

\* l[:n] of Python, n of either sign
SliceTo(l, n) ==
    IF n >= 0 THEN SubSeq(l, 1, IF n < Len(l) THEN n ELSE Len(l))
    ELSE SubSeq(l, 1, IF Len(l) + n > 0 THEN Len(l) + n ELSE 0)

\* soup.find_all("a", class_="result__a"): a class token is result__a
HasClass(anchor, cls) == cls \in Range(SplitOn(anchor.class, " "))

Unknown == <<"U","n","k","n","o","w","n">>

\* ------------------------------------------------------- website resolver
\* "https://html.duckduckgo.com/html/?q=" + query.replace(" ", "+")
SearchUrl(query) == <<"h","t","t","p","s",":","/","/","h","t","m","l",".","d","u","c","k","d","u","c","k","g","o",".","c","o","m","/","h","t","m","l","/","?","q","=">> \o Replace(query, " ", "+")

\* result.get("href") or "" / link.get("href", "")
HrefOf(anchor) == IF anchor.has_href THEN anchor.href ELSE <<>>

\* soup.find_all("a", class_="result__a")
ResultAnchors(doc) == SelectSeq(doc.anchors, LAMBDA a : HasClass(a, <<"r","e","s","u","l","t","_","_","a">>))

\* Sanity: ensure it's http(s)
HttpOrNone(href) ==
    IF StartsWith(href, <<"h","t","t","p",":","/","/">>) \/ StartsWith(href, <<"h","t","t","p","s",":","/","/">>)
    THEN Some(href) ELSE None

FirstResult(found) ==
    IF found = <<>> THEN None
    ELSE HttpOrNone(_unwrap_duckduckgo_redirect(HrefOf(found[1])))

\* search_college_website without its "ensure it's http(s)" check
SearchWithoutSanity(rsp) ==
    IF Not(rsp) \/ ResultAnchors(rsp.content) = <<>> THEN None
    ELSE Some(_unwrap_duckduckgo_redirect(HrefOf(ResultAnchors(rsp.content)[1])))

\* CollegeLeadScraper.search_college_website from the response rsp of its _get on:
\* None, or Some(website)
search_college_website(rsp) ==
    IF Not(rsp) THEN None ELSE FirstResult(ResultAnchors(rsp.content))

\* ------------------------------------------------------- homepage analyzer
faculty_keywords ==
    <<<<"f","a","c","u","l","t","y">>, <<"s","t","a","f","f">>, <<"p","r","o","f","e","s","s","o","r">>, <<"t","e","a","c","h","e","r","s">>, <<"d","e","p","a","r","t","m","e","n","t">>,
      <<"p","e","o","p","l","e">>, <<"d","i","r","e","c","t","o","r","y">>>>

IsFacultyLink(link) ==
    \E k \in Range(faculty_keywords) :
        Contains(ToLower(link.text), k) \/ Contains(ToLower(link.href), k)

RECURSIVE CollectPages(_, _, _)
\* full_url = urljoin(...); if full_url not in pages: pages.append(full_url)
AddPage(website, links, pages, full_url) ==
    IF full_url.err THEN [err |-> TRUE, pages |-> pages]
    ELSE CollectPages(website, Tail(links),
                      IF full_url.url \in Range(pages) THEN pages
                      ELSE Append(pages, full_url.url))

\* the loop over soup.find_all("a", href=True): [err, pages], err when urljoin raised
CollectPages(website, links, pages) ==
    IF links = <<>> THEN [err |-> FALSE, pages |-> pages]
    ELSE IF ~IsFacultyLink(Head(links)) THEN CollectPages(website, Tail(links), pages)
    ELSE AddPage(website, links, pages, urljoin(website, Head(links).href))

CollegeInfo(text, col) ==
    [err |-> col.err,
     emails |-> extract_emails(text),
     phones |-> extract_phones(text),
     faculty_pages |-> col.pages]

\* CollegeLeadScraper.scrape_college_info from the response rsp of its _get on:
\* [err, emails, phones, faculty_pages], err when the ValueError of urljoin escapes
scrape_college_info(website, rsp) ==
    IF Not(rsp)
    THEN [err |-> FALSE, emails |-> <<>>, phones |-> <<>>, faculty_pages |-> <<>>]
    ELSE CollegeInfo(rsp.content.text,
                     CollectPages(website,
                                  SelectSeq(rsp.content.anchors, LAMBDA a : a.has_href),
                                  <<>>))

\* ------------------------------------------------- personnel page extractor
\* CollegeLeadScraper._guess_name_from_row
_guess_name_from_row(cells) ==
    LET first == IF cells # <<>> THEN cells[1] ELSE <<>>
    IN  IF first # <<>> /\ \E i \in 1..Len(first) : first[i] \in Letter
        THEN first ELSE Unknown

\* row_text = " ".join(cell.get_text(" ", strip=True) for cell in cells)
RowText(cells) == JoinWith(cells, " ")

TableRecord(cells, faculty_url) ==
    [name |-> _guess_name_from_row(cells),
     emails |-> extract_emails(RowText(cells)),
     source |-> "table",
     text |-> RowText(cells),
     page |-> faculty_url]

RecordsOf(elements, Rec(_, _), faculty_url) ==
    [k \in 1..Len(elements) |-> Rec(elements[k], faculty_url)]

\* Strategy 1: the rows with at least two cells and an email
TableRecords(rows, faculty_url) ==
    RecordsOf(SelectSeq(rows, LAMBDA cells :
                  Len(cells) >= 2 /\ extract_emails(RowText(cells)) # <<>>),
              TableRecord, faculty_url)

\* re.compile(r"faculty|staff|profile|member", re.I) against a class attribute
ProfileClass(class) ==
    \E k \in {<<"f","a","c","u","l","t","y">>, <<"s","t","a","f","f">>, <<"p","r","o","f","i","l","e">>, <<"m","e","m","b","e","r">>} : Contains(ToLower(class), k)

SectionRecord(section, faculty_url) ==
    [name |-> IF section.has_name_tag THEN section.name_text ELSE Unknown,
     emails |-> extract_emails(section.text),
     source |-> "section",
     text |-> SliceTo(section.text, 300),
     page |-> faculty_url]

\* Strategy 2: the profile-like blocks with an email
SectionRecords(blocks, faculty_url) ==
    RecordsOf(SelectSeq(blocks, LAMBDA b :
                  ProfileClass(b.class) /\ extract_emails(b.text) # <<>>),
              SectionRecord, faculty_url)

\* key = ",".join(sorted(item.get("emails", [])))
EmailKey(item) == JoinWith(SortedSet(Range(item.emails)), ",")

RECURSIVE Dedup(_, _, _)
\* the de-dup without "key not in seen"
DedupItemUnseen(items, seen, deduped, key) ==
    IF key # <<>>
    THEN Dedup(Tail(items), seen \cup {key}, Append(deduped, Head(items)))
    ELSE Dedup(Tail(items), seen, deduped)

\* if key and key not in seen: seen.add(key); deduped.append(item)
DedupItem(items, seen, deduped, key) ==
    IF key # <<>> /\ key \notin seen
    THEN Dedup(Tail(items), seen \cup {key}, Append(deduped, Head(items)))
    ELSE Dedup(Tail(items), seen, deduped)

\* the de-dup loop: the items left, the keys seen, the items kept so far
Dedup(items, seen, deduped) ==
    IF items = <<>> THEN deduped
    ELSE DedupItem(items, seen, deduped, EmailKey(Head(items)))

\* the records of both strategies, before the de-dup
FacultyList(rsp, faculty_url) ==
    TableRecords(rsp.content.rows, faculty_url)
    \o SectionRecords(rsp.content.blocks, faculty_url)

\* CollegeLeadScraper.scrape_faculty_page from the response rsp of its _get on
scrape_faculty_page(rsp, faculty_url) ==
    IF Not(rsp) THEN <<>>
    ELSE Dedup(FacultyList(rsp, faculty_url), {}, <<>>)

\* ------------------------------------------------------------ social lookup
UnwrapAll(found) == [k \in 1..Len(found) |-> _unwrap_duckduckgo_redirect(HrefOf(found[k]))]

\* CollegeLeadScraper.search_linkedin from the response rsp of its _get on
search_linkedin(rsp) ==
    IF Not(rsp) THEN <<>>
    ELSE SliceTo(SelectSeq(UnwrapAll(ResultAnchors(rsp.content)),
                           LAMBDA h : Contains(h, <<"l","i","n","k","e","d","i","n",".","c","o","m">>)), 5)

\* ------------------------------------------------------------------- bounds
MaxLinks == 5       \* anchors of a homepage
MaxAnchors == 7     \* result anchors of a people search page
MaxChunks == 3      \* pieces a phone text is made of
MaxRows == 2        \* table rows of a personnel page
MaxBlocks == 2      \* profile blocks of a personnel page

\* ------------------------------------------------------------------ the web
\* The pages session.get may answer with at each step of the workflow.

Website == <<"h","t","t","p","s",":","/","/","e","x","a","m","p","l","e",".","e","d","u">>

ResultAnchor(href) == Anchor(<<"r","e","s","u","l","t","_","_","a">>, TRUE, href, <<"r","e","s","u","l","t">>)

SearchPages ==
    { Doc(<<>>, <<>>, <<>>, <<>>),
      \* a redirect link of the search engine
      Doc(<<>>, <<ResultAnchor(<<"/","/","d","u","c","k","d","u","c","k","g","o",".","c","o","m","/","l","/","?","u","d","d","g","=","h","t","t","p","s","%","3","A","%","2","F","%","2","F","e","x","a","m","p","l","e",".","e","d","u","&","r","u","t","=","1">>)>>,
          <<>>, <<>>),
      \* a direct link, after an anchor that is no organic result
      Doc(<<>>, <<Anchor(<<"b","a","d","g","e","-","-","a","d">>, TRUE, <<"h","t","t","p","s",":","/","/","a","d","s",".","e","x","a","m","p","l","e",".","c","o","m">>, <<"a","d">>),
                  ResultAnchor(Website)>>, <<>>, <<>>),
      \* a relative link
      Doc(<<>>, <<ResultAnchor(<<"/","y",".","j","s","?","u","=","3">>), ResultAnchor(Website)>>, <<>>, <<>>),
      \* a result anchor with no href
      Doc(<<>>, <<Anchor(<<"r","e","s","u","l","t","_","_","a">>, FALSE, <<>>, <<"r","e","s","u","l","t">>)>>, <<>>, <<>>),
      \* a redirect to something that is no http(s) URL
      Doc(<<>>, <<ResultAnchor(<<"h","t","t","p","s",":","/","/","d","u","c","k","d","u","c","k","g","o",".","c","o","m","/","l","/","?","u","d","d","g","=","j","a","v","a","s","c","r","i","p","t","%","3","A","v","o","i","d">>)>>,
          <<>>, <<>>) }

\* The i-th anchor of a homepage.
HomeLink(i) ==
    CASE i = 1 -> Anchor(<<>>, TRUE, <<"/","a","b","o","u","t">>, <<"A","b","o","u","t">>)
      [] i = 2 -> Anchor(<<>>, TRUE, <<"/","f","a","c","u","l","t","y">>, <<"F","a","c","u","l","t","y">>)
      [] i = 3 -> Anchor(<<>>, TRUE, <<"h","t","t","p","s",":","/","/","e","x","a","m","p","l","e",".","e","d","u","/","f","a","c","u","l","t","y">>, <<"O","u","r"," ","P","r","o","f","e","s","s","o","r","s">>)
      [] i = 4 -> Anchor(<<>>, TRUE, <<"t","e","a","m",".","h","t","m","l">>, <<"P","e","o","p","l","e">>)
      [] i = 5 -> Anchor(<<>>, TRUE, <<"/","/","e","x","a","m","p","l","e",".","e","d","u","/","S","t","a","f","f","/">>, <<"C","o","n","t","a","c","t">>)
      [] OTHER -> Anchor(<<>>, TRUE, <<"/","d","e","p","a","r","t","m","e","n","t","/","d">> \o <<DigitSeq[i]>>, <<"D","e","p","a","r","t","m","e","n","t">>)

HomeText == <<"C","o","n","t","a","c","t"," ","i","n","f","o","@","e","x","a","m","p","l","e",".","e","d","u"," ","o","r"," ","D","e","a","n","@","e","x","a","m","p","l","e",".","e","d","u",","," ","+","9","1","-","9","8","7","6","5","4","3","2","1","0">>

HomePages ==
    { Doc(HomeText, [i \in 1..n |-> HomeLink(i)], <<>>, <<>>) : n \in 0..MaxLinks }
    \cup
    { \* no contacts, an anchor without href and a mailto: link
      Doc(<<"W","e","l","c","o","m","e">>, <<Anchor(<<>>, FALSE, <<>>, <<"F","a","c","u","l","t","y">>),
                         Anchor(<<>>, TRUE, <<"m","a","i","l","t","o",":","s","t","a","f","f","@","e","x","a","m","p","l","e",".","e","d","u">>, <<"M","a","i","l">>)>>,
          <<>>, <<>>),
      \* a link whose href has an unclosed bracket in its host
      Doc(HomeText, <<HomeLink(2), Anchor(<<>>, TRUE, <<"/","/","[","s","t","a","f","f">>, <<"S","t","a","f","f">>)>>,
          <<>>, <<>>) }

FacultyPages ==
    { Doc(<<>>, <<>>, <<>>, <<>>),
      Doc(<<>>, <<>>,
          << <<<<"N","a","m","e">>, <<"E","m","a","i","l">>>>,
             <<<<"D","r","."," ","A">>, <<"a","@","x",".","e","d","u">>>>,
             <<<<"1","0","1">>, <<"b","@","x",".","e","d","u">>>> >>,
          <<Block(<<"f","a","c","u","l","t","y","-","c","a","r","d">>, <<"P","r","o","f","."," ","A"," ","a","@","x",".","e","d","u">>, TRUE, <<"P","r","o","f","."," ","A">>)>>),
      Doc(<<>>, <<>>, <<>>,
          <<Block(<<"p","r","o","f","i","l","e">>, <<"D","r","."," ","C"," ","c","@","x",".","e","d","u">>, TRUE, <<"D","r","."," ","C">>),
            Block(<<"M","e","m","b","e","r">>, <<"D","r","."," ","E"," ","e","@","x",".","e","d","u"," ","P","h","y","s","i","c","s">>, TRUE, <<"D","r","."," ","E">>),
            \* a block whose heading is empty
            Block(<<"s","t","a","f","f","-","m","e","m","b","e","r">>, <<"d","@","x",".","e","d","u">>, TRUE, <<>>)>>) }

\* The i-th result anchor of a people search page.
ProfileAnchor(i) ==
    CASE i = 1 -> ResultAnchor(<<"/","/","d","u","c","k","d","u","c","k","g","o",".","c","o","m","/","l","/","?","u","d","d","g","=","h","t","t","p","s","%","3","A","%","2","F","%","2","F","i","n",".","l","i","n","k","e","d","i","n",".","c","o","m","%","2","F","i","n","%","2","F","a">>)
      [] i = 2 -> ResultAnchor(<<"h","t","t","p","s",":","/","/","e","x","a","m","p","l","e",".","e","d","u","/","f","a","c","u","l","t","y">>)
      [] OTHER -> ResultAnchor(<<"h","t","t","p","s",":","/","/","w","w","w",".","l","i","n","k","e","d","i","n",".","c","o","m","/","i","n","/","p">> \o <<DigitSeq[i]>>)

ProfilePages ==
    { Doc(<<>>, [i \in 1..n |-> ProfileAnchor(i)], <<>>, <<>>) : n \in {0, 3, MaxAnchors} }

ErrorPage == Doc(<<"N","o","t"," ","F","o","u","n","d">>, <<>>, <<>>, <<>>)

\* The responses session.get may return to the caller ret.
Responses(caller) ==
    {Response(FALSE, ErrorPage)}
    \cup { Response(TRUE, d) :
             d \in CASE caller = "resolve" -> SearchPages
                     [] caller = "home" -> HomePages
                     [] caller = "page" -> FacultyPages
                     [] OTHER -> ProfilePages }

\* requests raises InvalidSchema, MissingSchema or InvalidURL inside session.get
\* for anything but a well-formed http(s) URL
CanRespond(url) ==
    /\ ~urlparse(url).err
    /\ urlparse(url).scheme \in {<<"h","t","t","p">>, <<"h","t","t","p","s">>}
    /\ urlparse(url).netloc # <<>>

\* ----------------------------------------------------------------- requests
CollegeName == <<"A","I","I","M","S"," ","D","e","l","h","i">>

Bodies ==
    { [college_name |-> CollegeName, max_faculty_pages |-> p, max_faculty_per_page |-> q,
       include_linkedin |-> l, request_timeout_s |-> 10, polite_delay_s |-> 0] :
         p \in {0 - 1, 0, 1, 2, 7}, q \in {0 - 1, 0, 2, 30}, l \in BOOLEAN }
    \cup
    { [college_name |-> CollegeName, request_timeout_s |-> t, polite_delay_s |-> d] :
         t \in {0 - 1, 10, 20}, d \in {0 - 1, 0, 1} }
    \cup
    { [college_name |-> n] : n \in {<<>>, <<" "," ">>, <<" ","A","I","I","M","S"," ","D","e","l","h","i"," ">>} }
    \cup
    { [max_faculty_pages |-> 1] }

Requests ==
    { [valid_json |-> TRUE, body |-> b] : b \in Bodies }
    \cup { [valid_json |-> FALSE, body |-> [max_faculty_pages |-> 1]] }

\* data.get(key, default)
Get(body, key, default) == IF key \in DOMAIN body THEN body[key] ELSE default

Min(a, b) == IF a < b THEN a ELSE b

\* ------------------------------------------------------------ configuration
\* the defaults of the ScrapeConfig dataclass
ScrapeConfig ==
    [request_timeout_s |-> 10, max_faculty_pages |-> 2, max_faculty_per_page |-> 8,
     include_linkedin |-> FALSE, polite_delay_s |-> 0]

MaxPagesLimit == 5
MaxPerPageLimit == 25
LinkedinPagesLimit == 2
LinkedinPerPageLimit == 5
TimeoutLimit == 15

\* if include_linkedin: the stricter limits
Stricter(include_linkedin, limit, strict) ==
    IF include_linkedin THEN Min(limit, strict) ELSE limit

\* do_POST: the hard limits and the ScrapeConfig built from the body
ConfigOf(body) ==
    [request_timeout_s |-> Min(Get(body, "request_timeout_s", 10), TimeoutLimit),
     max_faculty_pages |->
         Stricter(Get(body, "include_linkedin", FALSE),
                  Min(Get(body, "max_faculty_pages", 2), MaxPagesLimit),
                  LinkedinPagesLimit),
     max_faculty_per_page |->
         Stricter(Get(body, "include_linkedin", FALSE),
                  Min(Get(body, "max_faculty_per_page", 8), MaxPerPageLimit),
                  LinkedinPerPageLimit),
     include_linkedin |-> Get(body, "include_linkedin", FALSE),
     polite_delay_s |-> Get(body, "polite_delay_s", 0)]

\* _maybe_delay: 1 when it sleeps
Delay(cfg) == IF cfg.polite_delay_s # 0 /\ cfg.polite_delay_s > 0 THEN 1 ELSE 0

\* ------------------------------------------------------------------ fetcher
\* range(3)
MaxAttemptsThree == 2 + 1

MaxAttempts == 2    \* range(2)

fnvars == <<input, output, phase>>
locals == <<college_data, faculty_pages, page_i, faculty_list, f_j>>
getvars == <<get_url, attempt, ret, resp, get_log>>
wfvars == <<data, pc, status, config, college_name, results, locals, getvars,
            fetches, delays, lookups>>
vars == <<fnvars, wfvars>>

\* A step of the workflow calls self._get(url) and goes on at cont with its result.
Call(url, step, cont) ==
    /\ pc' = "get"
    /\ get_url' = url
    /\ attempt' = 0
    /\ ret' = cont
    /\ resp' = NoResponse
    /\ get_log' = <<>>
    /\ fetches' = Append(fetches, [step |-> step, url |-> url])

\* session.get returns a response: _get returns it
GetResponse ==
    /\ pc = "get"
    /\ attempt < MaxAttempts
    /\ CanRespond(get_url)
    /\ \E r \in Responses(ret) :
          /\ resp' = r
          /\ get_log' = Append(get_log, [ev |-> "get", raised |-> FALSE, r |-> r])
    /\ pc' = ret
    /\ UNCHANGED <<fnvars, data, status, config, college_name, results, locals,
                   get_url, attempt, ret, fetches, delays, lookups>>

\* session.get raises: sleep after the first attempt, then the next attempt
GetException ==
    /\ pc = "get"
    /\ attempt < MaxAttempts
    /\ get_log' = get_log \o <<[ev |-> "get", raised |-> TRUE, r |-> NoResponse]>>
                  \o (IF attempt = 0
                      THEN <<[ev |-> "sleep", raised |-> FALSE, r |-> NoResponse]>>
                      ELSE <<>>)
    /\ attempt' = attempt + 1
    /\ UNCHANGED <<fnvars, data, pc, status, config, college_name, results, locals,
                   get_url, ret, resp, fetches, delays, lookups>>

\* the loop is over: return None
GetNone ==
    /\ pc = "get"
    /\ attempt >= MaxAttempts
    /\ resp' = NoResponse
    /\ pc' = ret
    /\ UNCHANGED <<fnvars, data, status, config, college_name, results, locals,
                   get_url, attempt, ret, get_log, fetches, delays, lookups>>

\* ----------------------------------------------------------------- workflow
\* what run_workflow starts from
InitialResults(name, cfg) ==
    [college_name |-> name,
     college_website |-> None,
     college_contacts |-> [emails |-> <<>>, phones |-> <<>>],
     faculty_members |-> <<>>,
     meta |-> [config |-> cfg, error |-> None]]

\* name = f.get("name"), without the or
NameAsIs(f) == f.name

\* name = f.get("name") or "Unknown"
NameOf(f) == IF f.name = <<>> THEN Unknown ELSE f.name

\* f["linkedin_profiles"] = profiles
WithProfiles(f, profiles) ==
    [name |-> f.name, emails |-> f.emails, source |-> f.source, text |-> f.text,
     page |-> f.page, linkedin_profiles |-> profiles]

LinkedinUrl(name, college) ==
    SearchUrl(name \o <<" ">> \o college \o <<" ","s","i","t","e",":","l","i","n","k","e","d","i","n",".","c","o","m">>)

\* run_workflow returns res and do_POST sends it with status 200
Respond(res, pages) ==
    /\ pc' = "responded"
    /\ status' = 200
    /\ results' = res
    /\ faculty_pages' = pages
    /\ page_i' = 0
    /\ faculty_list' = <<>>
    /\ f_j' = 0
    /\ resp' = NoResponse
    /\ UNCHANGED <<get_url, attempt, ret, get_log, fetches, delays, lookups>>

\* the loop over faculty_pages at its i-th page
PageFrom(pages, i, res) ==
    IF i <= Len(pages)
    THEN /\ Call(pages[i], "page", "page")
         /\ results' = res
         /\ faculty_pages' = pages
         /\ page_i' = i
         /\ faculty_list' = <<>>
         /\ f_j' = 0
         /\ delays' = delays + Delay(config)
         /\ UNCHANGED <<status, lookups>>
    ELSE Respond(res, pages)

\* the first record from the j-th on that has a name, 0 when there is none
RECURSIVE NextNamed(_, _)
NextNamed(fl, j) ==
    IF j > Len(fl) THEN 0
    ELSE IF NameOf(fl[j]) # Unknown THEN j
    ELSE NextNamed(fl, j + 1)

\* the k-th record is looked up; with k = 0 the inner loop is over, the list is
\* appended to faculty_members and the next page follows
LookupAt(fl, k, res) ==
    IF k # 0
    THEN /\ Call(LinkedinUrl(NameOf(fl[k]), college_name), "social", "linkedin")
         /\ faculty_list' = fl
         /\ f_j' = k
         /\ results' = res
         /\ delays' = delays + Delay(config)
         /\ lookups' = Append(lookups, Len(res.faculty_members) + k)
         /\ UNCHANGED <<status, faculty_pages, page_i>>
    ELSE PageFrom(faculty_pages, page_i + 1, [res EXCEPT !.faculty_members = @ \o fl])

\* the loop over faculty_list from its j-th record on
LookupFrom(fl, j, res) ==
    LookupAt(fl, IF config.include_linkedin THEN NextNamed(fl, j) ELSE 0, res)

\* do_POST: the body is no JSON, or holds no college_name: 400
DoPostBadRequest ==
    /\ pc = "post"
    /\ \/ ~data.valid_json
       \/ Strip(Get(data.body, "college_name", <<>>)) = <<>>
    /\ pc' = "responded"
    /\ status' = 400
    /\ UNCHANGED <<fnvars, data, config, college_name, results, locals, getvars,
                   fetches, delays, lookups>>

\* do_POST builds the configuration and calls run_workflow, which runs to its
\* first fetch: the search of search_college_website
DoPost ==
    /\ pc = "post"
    /\ data.valid_json
    /\ Strip(Get(data.body, "college_name", <<>>)) # <<>>
    /\ college_name' = Strip(Get(data.body, "college_name", <<>>))
    /\ config' = ConfigOf(data.body)
    /\ results' = InitialResults(college_name', config')
    /\ Call(SearchUrl(college_name' \o <<" ","o","f","f","i","c","i","a","l"," ","w","e","b","s","i","t","e">>), "resolver", "resolve")
    /\ UNCHANGED <<fnvars, data, status, locals, delays, lookups>>

\* if not website: the error and the return; else the website, the delay and the
\* fetch of scrape_college_info
ResolvedWith(website) ==
    IF website = None
    THEN Respond([results EXCEPT !.meta.error = Some("website_not_found")], faculty_pages)
    ELSE /\ Call(website[1], "homepage", "home")
         /\ results' = [results EXCEPT !.college_website = website]
         /\ delays' = delays + Delay(config)
         /\ UNCHANGED <<status, faculty_pages, page_i, faculty_list, f_j, lookups>>

\* search_college_website returns
Resolved ==
    /\ pc = "resolve"
    /\ ResolvedWith(search_college_website(resp))
    /\ UNCHANGED <<fnvars, data, config, college_name, college_data>>

\* the contacts, the truncated candidate pages and the fetch of the first of them;
\* the ValueError of urljoin escapes run_workflow and do_POST, neither catches it
HomeAnalyzedWith(info) ==
    IF info.err
    THEN /\ pc' = "raised"
         /\ UNCHANGED <<status, results, locals, getvars, fetches, delays, lookups>>
    ELSE /\ college_data' = info
         /\ PageFrom(SliceTo(info.faculty_pages, config.max_faculty_pages), 1,
                     [results EXCEPT !.college_contacts =
                         [emails |-> info.emails, phones |-> info.phones]])

\* scrape_college_info returns
HomeAnalyzed ==
    /\ pc = "home"
    /\ HomeAnalyzedWith(scrape_college_info(results.college_website[1], resp))
    /\ UNCHANGED <<fnvars, data, config, college_name>>

\* scrape_faculty_page returns and its records are looked up untruncated
PageScrapedUntruncated ==
    /\ pc = "page"
    /\ LookupFrom(scrape_faculty_page(resp, get_url), 1, results)
    /\ UNCHANGED <<fnvars, data, config, college_name, college_data>>

\* scrape_faculty_page returns: the records are truncated, then looked up
PageScraped ==
    /\ pc = "page"
    /\ LookupFrom(SliceTo(scrape_faculty_page(resp, get_url), config.max_faculty_per_page),
                  1, results)
    /\ UNCHANGED <<fnvars, data, config, college_name, college_data>>

\* search_linkedin returns: its profiles are attached to the record
LinkedinSearched ==
    /\ pc = "linkedin"
    /\ LookupFrom([faculty_list EXCEPT ![f_j] = WithProfiles(@, search_linkedin(resp))],
                  f_j + 1, results)
    /\ UNCHANGED <<fnvars, data, config, college_name, college_data>>

NoCollegeData == [err |-> FALSE, emails |-> <<>>, phones |-> <<>>, faculty_pages |-> <<>>]

\* the handler and the workflow before a request, or left unused
WorkflowAt(request, at) ==
    /\ data = request
    /\ pc = at
    /\ status = 0
    /\ config = ScrapeConfig
    /\ college_name = <<>>
    /\ results = InitialResults(<<>>, ScrapeConfig)
    /\ college_data = NoCollegeData
    /\ faculty_pages = <<>>
    /\ page_i = 0
    /\ faculty_list = <<>>
    /\ f_j = 0
    /\ get_url = <<>>
    /\ attempt = 0
    /\ ret = "none"
    /\ resp = NoResponse
    /\ get_log = <<>>
    /\ fetches = <<>>
    /\ delays = 0
    /\ lookups = <<>>

FunctionIdle == input = <<>> /\ output = <<>> /\ phase = "idle"

\* A POST request arrives.
Init ==
    /\ FunctionIdle
    /\ \E request \in Requests : WorkflowAt(request, "post")

Next ==
    \/ DoPostBadRequest
    \/ DoPost
    \/ GetResponse
    \/ GetException
    \/ GetNone
    \/ Resolved
    \/ HomeAnalyzed
    \/ PageScraped
    \/ LinkedinSearched

Spec == Init /\ [][Next]_vars

\* ----------------------------------------------- the function specifications
SeqsUpTo(S, n) == UNION {[1..k -> S] : k \in 0..n}

WorkflowIdle == WorkflowAt([valid_json |-> FALSE, body |-> [max_faculty_pages |-> 1]], "idle")

\* the texts given to extract_phones: up to MaxChunks pieces of phone numbers
PhoneTexts ==
    {Concat(chunks) : chunks \in SeqsUpTo(
        {<<"+","9","1">>, <<"9","1">>, <<"-">>, <<" ">>, <<".">>, <<"9","8","7","6","5","4","3","2","1","0">>, <<"+","1">>, <<"5","5","5">>,
         <<"(","5","5","5",")">>, <<"1","2","3">>, <<"4","5","6","7">>}, MaxChunks)}

InitPhones == input \in PhoneTexts /\ output = <<>> /\ phase = "ready" /\ WorkflowIdle

CallExtractPhones ==
    /\ phase = "ready"
    /\ output' = extract_phones(input)
    /\ phase' = "done"
    /\ UNCHANGED <<input, wfvars>>

SpecPhones == InitPhones /\ [][CallExtractPhones]_vars

\* the hrefs given to unwrap: scheme, host, path and query put together
Hrefs ==
    {s \o h \o p \o q :
     s \in {<<>>, <<"h","t","t","p","s",":">>, <<"H","T","T","P",":">>},
     h \in
    {<<>>, <<"/","/","d","u","c","k","d","u","c","k","g","o",".","c","o","m">>, <<"/","/","h","t","m","l",".","d","u","c","k","d","u","c","k","g","o",".","c","o","m">>, <<"/","/","n","o","t","d","u","c","k","d","u","c","k","g","o",".","c","o","m">>,
     <<"/","/","d","u","c","k","d","u","c","k","g","o",".","c","o","m",":","4","4","3">>, <<"/","/","e","x","a","m","p","l","e",".","e","d","u">>, <<"/","/","d","u","c","k","d","u","c","k","g","o",".","c","o","m",".","e","v","i","l",".","i","o">>,
     <<"/","/","[","d","u","c","k","d","u","c","k","g","o",".","c","o","m">>, <<"/","/","u","s","e","r","@","d","u","c","k","d","u","c","k","g","o",".","c","o","m">>},
     p \in {<<>>, <<"/","l","/">>, <<"/","l">>, <<"/","l","i","t","e","/">>, <<"/","l","/","x">>, <<"/","L","/">>},
     q \in
    {<<>>, <<"?","u","d","d","g","=","h","t","t","p","s","%","3","A","%","2","F","%","2","F","e","x","a","m","p","l","e",".","e","d","u">>, <<"?","u","d","d","g","=">>, <<"?","u","d","d","g">>, <<"?","r","u","t","=","1">>,
     <<"?","q","=","1","&","u","d","d","g","=","%","2","F","y",".","j","s","&","u","d","d","g","=","b">>, <<"?","u","d","d","g","=","h","t","t","p","s","%","3","A","%","2","F","%","2","F","e","x","a","m","p","l","e",".","e","d","u","%","2","F","a","+","b","&","r","u","t","=","1">>,
     <<"#","u","d","d","g","=","x">>, <<"?","u","%","6","4","d","g","=","h","t","t","p","%","3","a","%","2","f","%","2","f","e","x","a","m","p","l","e",".","e","d","u">>, <<"?","u","d","d","g","=","%","z","z","%","2">>}}

InitUnwrap == input \in Hrefs /\ output = <<>> /\ phase = "ready" /\ WorkflowIdle

CallUnwrap ==
    /\ phase = "ready"
    /\ output' = _unwrap_duckduckgo_redirect(input)
    /\ phase' = "done"
    /\ UNCHANGED <<input, wfvars>>

SpecUnwrap == InitUnwrap /\ [][CallUnwrap]_vars

RowPool ==
    { <<<<"D","r","."," ","A">>, <<"a","@","x",".","e","d","u">>>>,
      <<<<"1","0","1">>, <<"b","@","x",".","e","d","u">>>>,
      <<<<"D","r","."," ","B">>, <<"M","a","t","h","s">>, <<"a","@","x",".","e","d","u">>>>,
      <<<<"D","r","."," ","D">>, <<"b","@","x",".","e","d","u",","," ","a","@","x",".","e","d","u">>>>,
      <<<<"D","r","."," ","C">>, <<"P","h","y","s","i","c","s">>>>,
      <<<<"c","@","x",".","e","d","u">>>> }

BlockPool ==
    { Block(<<"f","a","c","u","l","t","y","-","c","a","r","d">>, <<"P","r","o","f","."," ","A"," ","a","@","x",".","e","d","u">>, TRUE, <<"P","r","o","f","."," ","A">>),
      Block(<<"S","t","a","f","f">>, <<"a","@","x",".","e","d","u"," ","b","@","x",".","e","d","u">>, FALSE, <<>>),
      Block(<<"s","i","d","e","b","a","r">>, <<"W","e","b","m","a","s","t","e","r"," ","c","@","x",".","e","d","u">>, TRUE, <<"W","e","b","m","a","s","t","e","r">>),
      Block(<<"m","e","m","b","e","r">>, <<"D","r","."," ","E">>, TRUE, <<"D","r","."," ","E">>) }

FacultyResponses ==
    {NoResponse, Response(FALSE, ErrorPage)}
    \cup { Response(TRUE, Doc(<<>>, <<>>, rows, blocks)) :
             rows \in SeqsUpTo(RowPool, MaxRows), blocks \in SeqsUpTo(BlockPool, MaxBlocks) }

FacultyUrl == <<"h","t","t","p","s",":","/","/","e","x","a","m","p","l","e",".","e","d","u","/","f","a","c","u","l","t","y">>

InitFaculty == input \in FacultyResponses /\ output = <<>> /\ phase = "ready" /\ WorkflowIdle

CallScrapeFacultyPage ==
    /\ phase = "ready"
    /\ output' = scrape_faculty_page(input, FacultyUrl)
    /\ phase' = "done"
    /\ UNCHANGED <<input, wfvars>>

SpecFaculty == InitFaculty /\ [][CallScrapeFacultyPage]_vars

\* -------------------------------------------------------------- properties
\* run_workflow has returned and do_POST has sent its result
Returned == pc = "responded" /\ status = 200

IsPrefix(p, q) == Len(p) <= Len(q) /\ SubSeq(q, 1, Len(p)) = p

\* the URLs of the _get calls of one step, in call order
UrlsOf(step) ==
    LET calls == SelectSeq(fetches, LAMBDA f : f.step = step)
    IN  [k \in 1..Len(calls) |-> calls[k].url]

\* C1: whatever the fetches return, run_workflow returns a result with all its
\* fields and never propagates an exception.
C1_NeverRaises ==
    /\ pc # "raised"
    /\ Returned =>
          /\ DOMAIN results = {"college_name", "college_website", "college_contacts",
                               "faculty_members", "meta"}
          /\ DOMAIN results.college_contacts = {"emails", "phones"}

\* The resolver returns absent: its fetch failed, the page holds no organic result
\* anchor, or the unwrapped href of the first one does not begin with http(s)://.
ResolverAbsent ==
    \/ resp.is_none
    \/ ~resp.ok
    \/ \A i \in 1..Len(resp.content.anchors) :
          <<"r","e","s","u","l","t","_","_","a">> \notin Range(SplitOn(resp.content.anchors[i].class, " "))
    \/ LET first == CHOOSE i \in 1..Len(resp.content.anchors) :
                       /\ HasClass(resp.content.anchors[i], <<"r","e","s","u","l","t","_","_","a">>)
                       /\ \A j \in 1..(i - 1) :
                             ~HasClass(resp.content.anchors[j], <<"r","e","s","u","l","t","_","_","a">>)
           href == _unwrap_duckduckgo_redirect(
                       IF resp.content.anchors[first].has_href
                       THEN resp.content.anchors[first].href ELSE <<>>)
       IN  ~StartsWith(href, <<"h","t","t","p",":","/","/">>) /\ ~StartsWith(href, <<"h","t","t","p","s",":","/","/">>)

\* C2: when the website resolver returns absent, run_workflow returns at once with
\* college_website null, meta.error "website_not_found", empty contacts and no
\* faculty member, and the resolver's fetch is the only fetch of the run.
C2_NotFoundReturnsAtOnce ==
    /\ [][(pc = "resolve" /\ ResolverAbsent) =>
            /\ pc' = "responded"
            /\ status' = 200
            /\ results'.college_website = None
            /\ results'.meta.error = Some("website_not_found")
            /\ results'.college_contacts = [emails |-> <<>>, phones |-> <<>>]
            /\ results'.faculty_members = <<>>
            /\ fetches' = fetches]_vars
    /\ [](Returned /\ results.college_website = None =>
            /\ Len(fetches) = 1
            /\ fetches[1].step = "resolver"
            /\ results.meta.error = Some("website_not_found"))

\* a run that ended website_not_found although the search page held a result anchor
C2_Witness ==
    /\ Returned
    /\ results.college_website = None
    /\ results.meta.error = Some("website_not_found")
    /\ Len(fetches) = 1
    /\ get_log # <<>>
    /\ ~get_log[Len(get_log)].raised
    /\ get_log[Len(get_log)].r.ok
    /\ get_log[Len(get_log)].r.content.anchors # <<>>

\* C3: with max_pages >= 0 the personnel pages fetched are the first
\* min(max_pages, number of candidates) candidates the homepage analyzer returned,
\* each once and in order; with max_pages = 0 none is and faculty_members is empty.
C3_FirstPagesOnly ==
    config.max_faculty_pages >= 0 =>
        LET cands == college_data.faculty_pages
            n == IF config.max_faculty_pages < Len(cands)
                 THEN config.max_faculty_pages ELSE Len(cands)
            fetched == UrlsOf("page")
        IN  /\ IsPrefix(fetched, SubSeq(cands, 1, n))
            /\ (Returned /\ results.college_website # None) => fetched = SubSeq(cands, 1, n)
            /\ \A i, j \in 1..Len(fetched) : i # j => fetched[i] # fetched[j]
            /\ config.max_faculty_pages = 0 =>
                  fetched = <<>> /\ results.faculty_members = <<>>

\* a run with three candidates of which max_pages = 2 let two be fetched
C3_Witness ==
    /\ Returned
    /\ config.max_faculty_pages = 2
    /\ Len(college_data.faculty_pages) = 3
    /\ UrlsOf("page") = SubSeq(college_data.faculty_pages, 1, 2)

\* the session.get attempts of the current _get call
Attempts == SelectSeq(get_log, LAMBDA e : e.ev = "get")
\* _get has returned to its caller
GetReturned == pc \in {"resolve", "home", "page", "linkedin"}

\* C4: a _get makes at most two attempts, the second only after the first failed and
\* after the wait; no wait follows a failed second attempt; it returns the response
\* of the first attempt that did not fail, None exactly when both failed, and the
\* exception of a run never comes out of _get.
C4_OneRetry ==
    /\ Len(Attempts) <= 2
    /\ \A i \in 1..Len(get_log) :
          /\ get_log[i].ev = "sleep" => i = 2 /\ get_log[1].ev = "get" /\ get_log[1].raised
          /\ (get_log[i].ev = "get" /\ i > 1) =>
                i = 3 /\ get_log[1].raised /\ get_log[2].ev = "sleep"
          /\ (get_log[i].ev = "get" /\ ~get_log[i].raised) => i = Len(get_log)
    /\ GetReturned =>
          /\ Attempts # <<>>
          /\ resp.is_none <=> (Len(Attempts) = 2 /\ \A i \in 1..2 : Attempts[i].raised)
          /\ ~resp.is_none => resp = Attempts[Len(Attempts)].r
    /\ pc = "raised" => ret = "home" /\ ~resp.is_none

\* a _get whose first attempt failed and whose second returned a response
C4_Witness ==
    /\ pc = "home"
    /\ Len(get_log) = 3
    /\ get_log[1].raised
    /\ get_log[2].ev = "sleep"
    /\ ~resp.is_none
    /\ resp = get_log[3].r

\* the k-th smallest element of a set of numbers
KthOf(S, k) == CHOOSE i \in S : Cardinality({j \in S : j < i}) = k - 1

\* C5: the list scrape_faculty_page returns holds no record without an email and no
\* two records with the same set of emails; the record kept for a set is the first
\* emitted, table rows before profile blocks, each in document order.
C5_FirstSeenWins ==
    phase = "done" =>
        LET all == IF input.is_none \/ ~input.ok THEN <<>>
                   ELSE FacultyList(input, FacultyUrl)
            firsts == {i \in 1..Len(all) :
                          /\ all[i].emails # <<>>
                          /\ \A j \in 1..(i - 1) :
                                Range(all[j].emails) # Range(all[i].emails)}
        IN  /\ \A k \in 1..Len(output) : output[k].emails # <<>>
            /\ \A k, l \in 1..Len(output) :
                  k # l => Range(output[k].emails) # Range(output[l].emails)
            /\ Len(output) = Cardinality(firsts)
            /\ \A k \in 1..Len(output) : output[k] = all[KthOf(firsts, k)]
            /\ \A k, l \in 1..Len(output) :
                  (k < l /\ output[k].source = "section") => output[l].source = "section"

\* a page where a profile block repeats the emails of a table row and is discarded
C5_Witness ==
    /\ phase = "done"
    /\ ~input.is_none
    /\ input.ok
    /\ Len(output) >= 2
    /\ Len(output) < Len(FacultyList(input, FacultyUrl))
    /\ \E b \in 1..Len(input.content.blocks) :
          /\ ProfileClass(input.content.blocks[b].class)
          /\ \E k \in 1..Len(output) :
                /\ output[k].source = "table"
                /\ output[k].emails = extract_emails(input.content.blocks[b].text)

\* the text is one phone number that pattern i matches whole
WholeMatch(i, text) == FindAll(phone_patterns[i], text) = <<text>>

\* C6: a phone number matched by more than one of the three patterns contributes
\* exactly one entry to the list extract_phones returns.
C6_OneEntryPerNumber ==
    (/\ phase = "done"
     /\ \E i, j \in 1..Len(phone_patterns) :
           i # j /\ WholeMatch(i, input) /\ WholeMatch(j, input))
    => Len(output) = 1

\* the host of a netloc: without userinfo and port
HostOf(netloc) ==
    LET at == SplitOn(netloc, "@")
    IN  ToLower(SplitOn(at[Len(at)], ":")[1])

IsSearchEngineHost(host) ==
    host = <<"d","u","c","k","d","u","c","k","g","o",".","c","o","m">> \/ EndsWith(host, <<".","d","u","c","k","d","u","c","k","g","o",".","c","o","m">>)

\* C7: unwrap returns something else than the href only when the href's host is the
\* search engine's domain and its path the redirect endpoint; every other href,
\* malformed ones included, comes back unchanged.
C7_IdentityElsewhere ==
    phase = "done" =>
        \/ output = input
        \/ /\ ~urlparse(input).err
           /\ IsSearchEngineHost(HostOf(urlparse(input).netloc))
           /\ StartsWith(urlparse(input).path, <<"/","l","/">>)
           /\ output = parse_qs(urlparse(input).query, <<"u","d","d","g">>)[1]

HasProfiles(f) == "linkedin_profiles" \in DOMAIN f

\* the records looked up are those whose name is not in unnamed; each lookup is a
\* fetch for that record's name; exactly the records looked up carry at most five
\* profiles; without include_linkedin there is no lookup
LookupsAre(unnamed) ==
    Returned =>
        LET fm == results.faculty_members
            social == UrlsOf("social")
        IN  /\ \A g \in 1..Len(fm) :
                  /\ g \in Range(lookups) <=> (config.include_linkedin /\ fm[g].name \notin unnamed)
                  /\ HasProfiles(fm[g]) <=> g \in Range(lookups)
                  /\ HasProfiles(fm[g]) => Len(fm[g].linkedin_profiles) <= 5
            /\ Range(lookups) \subseteq 1..Len(fm)
            /\ Len(social) = Len(lookups)
            /\ Cardinality(Range(lookups)) = Len(lookups)
            /\ \A k \in 1..Len(lookups) :
                  social[k] = SearchUrl(fm[lookups[k]].name \o <<" ">> \o college_name
                                        \o <<" ","s","i","t","e",":","l","i","n","k","e","d","i","n",".","c","o","m">>)
            /\ ~config.include_linkedin => social = <<>>

\* C8 as stated: a record is looked up if and only if social lookup is enabled, the
\* record was kept by the per-page truncation and its name is not "Unknown".
C8_LookupUnlessUnknown == LookupsAre({Unknown})

\* C8 amended: ... and its name is neither empty nor "Unknown".
C8_LookupIfNamed == LookupsAre({<<>>, Unknown})

\* a run that kept a record with an empty name, not looked up, beside a record with
\* five profiles
C8_Witness ==
    /\ Returned
    /\ config.include_linkedin
    /\ \E g, h \in 1..Len(results.faculty_members) :
          /\ results.faculty_members[g].name = <<>>
          /\ ~HasProfiles(results.faculty_members[g])
          /\ HasProfiles(results.faculty_members[h])
          /\ Len(results.faculty_members[h].linkedin_profiles) = 5

\* C9: the configuration do_POST hands to run_workflow has all its bounds
\* non-negative and within the hard limits.
C9_ConfigClamped ==
    pc \notin {"post", "idle"} /\ status # 400 =>
        /\ 0 <= config.max_faculty_pages /\ config.max_faculty_pages <= 5
        /\ 0 <= config.max_faculty_per_page /\ config.max_faculty_per_page <= 25
        /\ 0 <= config.request_timeout_s /\ config.request_timeout_s <= 15
        /\ config.polite_delay_s >= 0
        /\ config.include_linkedin =>
              config.max_faculty_pages <= 2 /\ config.max_faculty_per_page <= 5

\* C10: with non-negative bounds the records of a page are truncated to
\* max_per_page before they are looked up and appended, so faculty_members holds at
\* most max_pages * max_per_page records and the run makes at most
\* 2 + max_pages * (1 + max_per_page) fetches with social lookup, 2 + max_pages
\* without.
C10_Budget ==
    (config.max_faculty_pages >= 0 /\ config.max_faculty_per_page >= 0) =>
        /\ Len(faculty_list) <= config.max_faculty_per_page
        /\ f_j <= config.max_faculty_per_page
        /\ Len(results.faculty_members)
              <= config.max_faculty_pages * config.max_faculty_per_page
        /\ Len(UrlsOf("social"))
              <= config.max_faculty_pages * config.max_faculty_per_page
        /\ Len(fetches) <=
              IF config.include_linkedin
              THEN 2 + config.max_faculty_pages * (1 + config.max_faculty_per_page)
              ELSE 2 + config.max_faculty_pages

\* a run with social lookup that spent its whole budget of fetches: two pages cut to
\* two records each, every record looked up
C10_Witness ==
    /\ Returned
    /\ config.include_linkedin
    /\ config.max_faculty_pages = 2
    /\ config.max_faculty_per_page = 2
    /\ Len(fetches) = 8
    /\ Len(results.faculty_members) = 4

=============================================================================
